---- MODULE Spec2Model ----
(***************************************************************************)
(* A model of blockade-rs: BlockadeHandler (src/src/blockade.rs), the      *)
(* client-side shadow of a remote blockade service.                        *)
(*                                                                         *)
(* The handler is single threaded and synchronous: every public method     *)
(* runs to completion, sending its HTTP requests one after the other.  A   *)
(* method is therefore one action.  The remote service is the environment: *)
(* the answers to the requests of one call form a script `rs`, the i-th    *)
(* answer being the answer to the i-th request the call sends.             *)
(***************************************************************************)
EXTENDS Integers, Sequences, FiniteSets, TLC

VARIABLES
    blockades,  \* BlockadeHandler.blockades : Vec<String>
    state,      \* BlockadeHandler.state     : HashMap<String, BlockadeState>
    config,     \* BlockadeHandler.config    : HashMap<String, BlockadeConfig>
    call,       \* observation of the call that just returned (NoCall between calls)
    server,     \* the blockades the remote service holds (SpecService)
    scenario,   \* how far the caller's partition scenario has come (SpecService)
    wire        \* a value on its way through serde (SpecWire)

vars == <<blockades, state, config, call, server, scenario, wire>>

----------------------------------------------------------------------------
(* Bounds of the model.                                                    *)

\* Partition ids the service may report range over 0..MaxPartition.
MaxPartition == 1

\* Blockade names.
Names == {"b1", "b2"}

\* Container names are strings, modelled as sequences of letters
\* (1 = 'a', 2 = 'b') so that Rust's String order can be computed.
CA == <<1>>
CAB == <<1, 2>>
CB == <<2>>

\* The containers a caller names in a single-container command.
TargetNames == {CA, CB}

----------------------------------------------------------------------------
(* Values of common.rs.                                                    *)

\* Option<T>: None, Some(x).
None == <<>>
Some(x) == <<x>>

\* BlockadeContainerState without container_id and name, two plain strings.
ContainerState(device, ip_address, network_state, partition, status) ==
    [device |-> device, ip_address |-> ip_address,
     network_state |-> network_state, partition |-> partition, status |-> status]

\* BlockadeContainerState::default().
ContainerStateDefault == ContainerState("", "127.0.0.2", "Unknown", Some(0), "Missing")

\* The state of a container the service reports in partition p.
BlockadeContainerState(p) ==
    ContainerState("veth0", "172.17.0.2", "Fast", Some(p),
                   IF p = 0 THEN "Up" ELSE "Down")

\* BlockadeState: containers is a map from container name to its state.
BlockadeState(S, p) == [containers |-> [c \in S |-> BlockadeContainerState(p)]]

EmptyState == [containers |-> [c \in {} |-> BlockadeContainerState(0)]]

\* The state documents the service answers with.
BlockadeStates ==
    {EmptyState, BlockadeState({CA, CB}, 0)}
        \cup {BlockadeState({CB, CAB}, p) : p \in 1..MaxPartition}

\* BlockadeNetConfig::default() and BlockadeConfig values.
BlockadeNetConfigDefault ==
    [flaky |-> "10%", slow |-> "75ms 100ms distribution normal", driver |-> "udn"]

BlockadeConfigDefault == [containers |-> {}, network |-> BlockadeNetConfigDefault]

Configs == {BlockadeConfigDefault,
            [containers |-> {CA, CB}, network |-> BlockadeNetConfigDefault]}

\* BlockadeCommand::to_str and BlockadeNetStatus::to_str: the wire tokens.
CommandToStr(c) ==
    CASE c = "Start" -> "start"
      [] c = "Stop" -> "stop"
      [] c = "Restart" -> "restart"
      [] c = "Kill" -> "kill"

NetStatusToStr(s) ==
    CASE s = "Fast" -> "fast"
      [] s = "Slow" -> "slow"
      [] s = "Duplicate" -> "duplicate"
      [] s = "Flaky" -> "flaky"
      [] s = "Unknown" -> "unknown"

ContainerStatusToStr(s) ==
    CASE s = "Up" -> "up"
      [] s = "Down" -> "down"
      [] s = "Missing" -> "missing"

----------------------------------------------------------------------------
(* Rust's order on String (byte-wise lexicographic) and Vec::sort.         *)

Min(a, b) == IF a <= b THEN a ELSE b

StrLess(a, b) ==
    \E i \in 1..(Min(Len(a), Len(b)) + 1) :
        /\ \A j \in 1..(i - 1) : a[j] = b[j]
        /\ \/ i > Len(a) /\ i <= Len(b)
           \/ i <= Len(a) /\ i <= Len(b) /\ a[i] < b[i]

RECURSIVE SortedKeys(_)
SortedKeys(S) ==
    IF S = {} THEN <<>>
    ELSE LET m == CHOOSE x \in S : \A y \in S \ {x} : StrLess(x, y)
         IN <<m>> \o SortedKeys(S \ {m})

----------------------------------------------------------------------------
(* HTTP: requests, and the answers of the remote service.                  *)

Get(path) == [method |-> "GET", path |-> path]
Delete(path) == [method |-> "DELETE", path |-> path]
Post(path, json) == [method |-> "POST", path |-> path, json |-> json]

\* Response bodies.
TextBody(t) == [t |-> "text", text |-> t]
StateBody(s) == [t |-> "state", doc |-> s]        \* a well-formed BlockadeState
ListBody(l) == [t |-> "list", names |-> l]         \* {"blockades": [...]}
NoKeyBody == [t |-> "nokey"]                        \* {}
Garbage == [t |-> "garbage"]                        \* not JSON
Unreadable == [t |-> "unreadable"]                  \* res.text() fails
\* A state document in which a container's network_state or status is a
\* token the last arm of from_str takes ("up", "fast", "bogus").
UnknownToken == [t |-> "token"]

ConflictText == "Blockade name already exists"
ErrorTexts == {ConflictText, "Internal Server Error"}

\* send() failed: there is no response.
SendFailed == [sent |-> FALSE]
Response(success, body) == [sent |-> TRUE, success |-> success, body |-> body]
\* The script ran out: the call is cut short at this request.
NoResponse == [sent |-> FALSE, missing |-> TRUE]

ErrorResponses ==
    {SendFailed} \cup {Response(FALSE, TextBody(t)) : t \in ErrorTexts}
                 \cup {Response(FALSE, Unreadable)}

NameLists == {<<>>, <<"b1">>, <<"b2", "b1">>}

\* The answers the service may give to a request.
ResponsesFor(req) ==
    IF req.method = "GET" /\ Len(req.path) = 1
    THEN ErrorResponses
         \cup {Response(TRUE, ListBody(l)) : l \in NameLists}
         \cup {Response(TRUE, NoKeyBody), Response(TRUE, Garbage),
               Response(TRUE, Unreadable)}
    ELSE IF req.method = "GET"
    THEN ErrorResponses
         \cup {Response(TRUE, StateBody(s)) : s \in BlockadeStates}
         \cup {Response(TRUE, Garbage), Response(TRUE, Unreadable),
               Response(TRUE, UnknownToken)}
    ELSE ErrorResponses \cup {Response(TRUE, TextBody(""))}

----------------------------------------------------------------------------
(* BlockadeError and Result.  `at` is the position, in the call's request  *)
(* log, of the request the error comes from (0: no request): it gives the  *)
(* error its identity.                                                     *)

HttpError(at) == [kind |-> "HttpError", at |-> at]
ServerError(body, at) == [kind |-> "ServerError", body |-> body, at |-> at]
JsonError(at) == [kind |-> "JsonError", at |-> at]
OtherError(msg) == [kind |-> "OtherError", msg |-> msg, at |-> 0]

Ok == [ok |-> TRUE]
OkVal(v) == [ok |-> TRUE, val |-> v]
Err(e) == [ok |-> FALSE, err |-> e]

\* The handler during a call: its fields and the requests sent so far.
Handler(b, s, c) == [blockades |-> b, state |-> s, config |-> c, log |-> <<>>]

Ret(h, res) == [h |-> h, res |-> res]

\* HashMap::insert and HashMap::remove.
Insert(m, k, v) == [x \in (DOMAIN m) \cup {k} |-> IF x = k THEN v ELSE m[x]]
Remove(m, k) == [x \in (DOMAIN m) \ {k} |-> m[x]]
EmptyMap == [x \in {} |-> {}]

\* client.<method>(url).send(): the request goes out and the script answers.
Send(h, req, rs) ==
    LET i == Len(h.log) + 1
        resp == IF i <= Len(rs) THEN rs[i] ELSE NoResponse
    IN [h EXCEPT !.log = Append(@, [req |-> req, resp |-> resp])]

LastResp(h) == h.log[Len(h.log)].resp

\* `?` on a Result: an Err returns from the method at once, an Ok goes on.
Try(a, F(_)) == IF a.res.ok THEN F(a) ELSE a

\* A status tail that takes a non-2xx answer for a transport failure.
StatusResultUnclassified(h) ==
    IF LastResp(h).sent /\ LastResp(h).success THEN Ok
    ELSE Err(HttpError(Len(h.log)))

\* The tail shared by the requests that read no body on success:
\* send()?, then Ok on a 2xx status, else ServerError(res.text()?).
StatusResult(h) ==
    LET resp == LastResp(h)
        at == Len(h.log)
    IN IF ~resp.sent THEN Err(HttpError(at))
       ELSE IF resp.success THEN Ok
       ELSE IF resp.body.t = "unreadable" THEN Err(HttpError(at))
       ELSE Err(ServerError(resp.body, at))

Status(h) == Ret(h, StatusResult(h))

----------------------------------------------------------------------------
(* serde: the JSON form of the types of common.rs.                         *)

\* JSON values; Absent stands for a key the object does not have.
Absent == [j |-> "absent"]
JNull == [j |-> "null"]
JStr(s) == [j |-> "string", s |-> s]
JNum(n) == [j |-> "number", n |-> n]

\* panic!: the thread unwinds, no Result is returned.
Panic == [ok |-> FALSE, panic |-> TRUE]
Panics(r) == "panic" \in DOMAIN r

\* Stringify::from_str: the value, or the panic of the last match arm.
CommandFromStr(val) ==
    CASE val = "start" -> OkVal("Start")
      [] val = "stop" -> OkVal("Stop")
      [] val = "restart" -> OkVal("Restart")
      [] val = "kill" -> OkVal("Kill")
      [] OTHER -> Panic

NetStatusFromStr(val) ==
    CASE val = "NORMAL" -> OkVal("Fast")
      [] val = "FAST" -> OkVal("Fast")
      [] val = "SLOW" -> OkVal("Slow")
      [] val = "DUPLICATE" -> OkVal("Duplicate")
      [] val = "FLAKY" -> OkVal("Flaky")
      [] val = "UNKNOWN" -> OkVal("Unknown")
      [] OTHER -> Panic

ContainerStatusFromStr(val) ==
    CASE val = "UP" -> OkVal("Up")
      [] val = "DOWN" -> OkVal("Down")
      [] val = "MISSING" -> OkVal("Missing")
      [] OTHER -> Panic

EnumTypes == {"Command", "NetStatus", "ContainerStatus"}

ToStr(type, v) ==
    CASE type = "Command" -> CommandToStr(v)
      [] type = "NetStatus" -> NetStatusToStr(v)
      [] type = "ContainerStatus" -> ContainerStatusToStr(v)

FromStr(type, val) ==
    CASE type = "Command" -> CommandFromStr(val)
      [] type = "NetStatus" -> NetStatusFromStr(val)
      [] type = "ContainerStatus" -> ContainerStatusFromStr(val)

\* impl Serialize: serializer.serialize_str(self.to_str()).
SerializeEnum(type, v) == JStr(ToStr(type, v))

\* impl Deserialize: deserialize_str with the visitor, whose visit_str is
\* Ok(Stringify::from_str(value)); a JSON value that is no string is an
\* invalid-type error.
DeserializeEnum(type, j) ==
    IF j.j = "string" THEN FromStr(type, j.s) ELSE Err(JsonError(0))

\* Ipv4Addr::from_str, which serde uses for the ip_address string: four
\* decimal numbers separated by dots, each of one to three digits, without
\* a leading zero unless it is "0", and at most 255; nothing else around.
Digits == <<"0", "1", "2", "3", "4", "5", "6", "7", "8", "9">>

IsDigit(c) == \E d \in 1..10 : Digits[d] = c

DigitOf(s, i) == (CHOOSE d \in 1..10 : Digits[d] = SubSeq(s, i, i)) - 1

NumberOf(s) ==
    IF Len(s) = 1 THEN DigitOf(s, 1)
    ELSE IF Len(s) = 2 THEN 10 * DigitOf(s, 1) + DigitOf(s, 2)
    ELSE 100 * DigitOf(s, 1) + 10 * DigitOf(s, 2) + DigitOf(s, 3)

IsOctet(s) ==
    /\ Len(s) \in 1..3
    /\ \A i \in 1..Len(s) : IsDigit(SubSeq(s, i, i))
    /\ Len(s) > 1 => SubSeq(s, 1, 1) # "0"
    /\ NumberOf(s) <= 255

ParsesIpv4(s) ==
    \E i, j, k \in 2..(Len(s) - 1) :
        /\ i < j /\ j < k
        /\ SubSeq(s, i, i) = "." /\ SubSeq(s, j, j) = "." /\ SubSeq(s, k, k) = "."
        /\ IsOctet(SubSeq(s, 1, i - 1))
        /\ IsOctet(SubSeq(s, i + 1, j - 1))
        /\ IsOctet(SubSeq(s, j + 1, k - 1))
        /\ IsOctet(SubSeq(s, k + 1, Len(s)))

\* The strings Ipv4Addr parses.
ValidIps == {s \in STRING : ParsesIpv4(s)}

Fields == {"device", "ip_address", "network_state", "partition", "status"}

\* #[derive(Deserialize)] on BlockadeContainerState: the value of key k.
\* The numbers of the model stay below 2^32, so a u32 is a number >= 0.
DeserializeField(k, j) ==
    CASE k = "device" ->
            IF j.j = "string" THEN OkVal(j.s) ELSE Err(JsonError(0))
      [] k = "ip_address" ->
            IF j.j = "string" /\ j.s \in ValidIps
            THEN OkVal(j.s) ELSE Err(JsonError(0))
      [] k = "network_state" -> DeserializeEnum("NetStatus", j)
      [] k = "partition" ->
            IF j.j = "null" THEN OkVal(None)
            ELSE IF j.j = "number" /\ j.n >= 0 THEN OkVal(Some(j.n))
            ELSE Err(JsonError(0))
      [] k = "status" -> DeserializeEnum("ContainerStatus", j)

\* A key the object lacks: an Option field is None, any other field is a
\* missing-field error.
MissingField(k) == IF k = "partition" THEN OkVal(None) ELSE Err(JsonError(0))

FieldOf(doc, k) ==
    IF doc[k] = Absent THEN MissingField(k) ELSE DeserializeField(k, doc[k])

\* The keys of the object whose value is rejected, and those whose value
\* makes from_str panic.
Rejected(doc) ==
    {k \in Fields : doc[k] # Absent /\ ~FieldOf(doc, k).ok /\ ~Panics(FieldOf(doc, k))}
Panicking(doc) ==
    {k \in Fields : doc[k] # Absent /\ Panics(FieldOf(doc, k))}

\* The outcomes of decoding a container state.  The values are visited in
\* the order of the keys in the text, the first rejected value returns the
\* error and the first panicking one panics, whichever comes first; missing
\* fields are reported at the end of the object.
DeserializeContainerState(doc) ==
    IF Rejected(doc) \cup Panicking(doc) # {}
    THEN {Err(JsonError(0)) : k \in Rejected(doc)} \cup {Panic : k \in Panicking(doc)}
    ELSE IF \E k \in Fields : ~FieldOf(doc, k).ok
    THEN {Err(JsonError(0))}
    ELSE {OkVal(ContainerState(FieldOf(doc, "device").val,
                               FieldOf(doc, "ip_address").val,
                               FieldOf(doc, "network_state").val,
                               FieldOf(doc, "partition").val,
                               FieldOf(doc, "status").val))}

\* #[derive(Serialize)] on BlockadeContainerState.
SerializeContainerState(s) ==
    [device |-> JStr(s.device),
     ip_address |-> JStr(s.ip_address),
     network_state |-> SerializeEnum("NetStatus", s.network_state),
     partition |-> IF s.partition = None THEN JNull ELSE JNum(s.partition[1]),
     status |-> SerializeEnum("ContainerStatus", s.status)]

Serialize(type, v) ==
    IF type \in EnumTypes THEN SerializeEnum(type, v) ELSE SerializeContainerState(v)

Deserialize(type, j) ==
    IF type \in EnumTypes THEN {DeserializeEnum(type, j)}
    ELSE DeserializeContainerState(j)

----------------------------------------------------------------------------
(* The private request methods of BlockadeHandler.                         *)

\* An execute_setup that caches the config only when the name has none.
execute_setup_once(h, name, cfg, rs) ==
    Status(Send([h EXCEPT !.config = IF name \in DOMAIN @ THEN @
                                     ELSE Insert(@, name, cfg)],
                Post(<<"blockade", name>>, cfg), rs))

\* self.config.insert(name, config) comes first, then the POST.
execute_setup(h, name, cfg, rs) ==
    Status(Send([h EXCEPT !.config = Insert(@, name, cfg)],
                Post(<<"blockade", name>>, cfg), rs))

execute_command(h, name, command, containers, rs) ==
    Status(Send(h, Post(<<"blockade", name, "action">>,
                        [command |-> CommandToStr(command),
                         container_names |-> containers]), rs))

execute_net_command(h, name, network_state, container_names, rs) ==
    Status(Send(h, Post(<<"blockade", name, "network_state">>,
                        [network_state |-> NetStatusToStr(network_state),
                         container_names |-> container_names]), rs))

execute_partition(h, name, partitions, rs) ==
    Status(Send(h, Post(<<"blockade", name, "partitions">>,
                        [partitions |-> partitions]), rs))

execute_restore_network(h, name, rs) ==
    Status(Send(h, Delete(<<"blockade", name, "partitions">>), rs))

\* A list that takes a body without the "blockades" key for a decode error.
ListResultStrict(h) ==
    LET resp == LastResp(h)
        at == Len(h.log)
    IN IF ~resp.sent THEN Ret(h, Err(HttpError(at)))
       ELSE IF resp.body.t = "unreadable" THEN Ret(h, Err(HttpError(at)))
       ELSE IF ~resp.success THEN Ret(h, Err(ServerError(resp.body, at)))
       ELSE IF resp.body.t = "list"
            THEN Ret([h EXCEPT !.blockades = resp.body.names], Ok)
       ELSE Ret(h, Err(JsonError(at)))

\* execute_list_blockades once the GET is sent.
ListResult(h) ==
    LET resp == LastResp(h)
        at == Len(h.log)
    IN IF ~resp.sent THEN Ret(h, Err(HttpError(at)))
       ELSE IF resp.body.t = "unreadable" THEN Ret(h, Err(HttpError(at)))
       ELSE IF ~resp.success THEN Ret(h, Err(ServerError(resp.body, at)))
       ELSE IF resp.body.t = "list"
            THEN Ret([h EXCEPT !.blockades = resp.body.names], Ok)
       ELSE IF resp.body.t = "nokey"
            THEN Ret([h EXCEPT !.blockades = <<>>], Ok)
       ELSE Ret(h, Err(JsonError(at)))

execute_list_blockades(h, rs) == ListResult(Send(h, Get(<<"blockade">>), rs))

\* A fetch that merges the fetched containers into the cached entry.
Merged(old, doc) ==
    [containers |->
        [c \in (DOMAIN old.containers) \cup (DOMAIN doc.containers) |->
            IF c \in DOMAIN doc.containers THEN doc.containers[c]
            ELSE old.containers[c]]]

GetResultMerging(h, name) ==
    LET resp == LastResp(h)
        at == Len(h.log)
    IN IF ~resp.sent THEN Ret(h, Err(HttpError(at)))
       ELSE IF resp.body.t = "unreadable" THEN Ret(h, Err(HttpError(at)))
       ELSE IF ~resp.success THEN Ret(h, Err(ServerError(resp.body, at)))
       ELSE IF resp.body.t = "state"
            THEN Ret([h EXCEPT !.state =
                         Insert(@, name, IF name \in DOMAIN @
                                         THEN Merged(@[name], resp.body.doc)
                                         ELSE resp.body.doc)], Ok)
       ELSE IF resp.body.t = "token" THEN Ret(h, Panic)
       ELSE Ret(h, Err(JsonError(at)))

\* execute_get_blockade once the GET is sent: serde_json::from_str gives the
\* state, or a serde error, or unwinds with the panic of from_str.
GetResult(h, name) ==
    LET resp == LastResp(h)
        at == Len(h.log)
    IN IF ~resp.sent THEN Ret(h, Err(HttpError(at)))
       ELSE IF resp.body.t = "unreadable" THEN Ret(h, Err(HttpError(at)))
       ELSE IF ~resp.success THEN Ret(h, Err(ServerError(resp.body, at)))
       ELSE IF resp.body.t = "state"
            THEN Ret([h EXCEPT !.state = Insert(@, name, resp.body.doc)], Ok)
       ELSE IF resp.body.t = "token" THEN Ret(h, Panic)
       ELSE Ret(h, Err(JsonError(at)))

execute_get_blockade(h, name, rs) ==
    GetResult(Send(h, Get(<<"blockade", name>>), rs), name)

\* A delete that forgets the entry whatever the status.
DeleteResultForgetting(h, name) ==
    Ret([h EXCEPT !.state = IF name \in DOMAIN @ THEN Remove(@, name) ELSE @],
        StatusResult(h))

\* execute_delete_blockade once the DELETE is sent.
DeleteResult(h, name) ==
    IF StatusResult(h).ok
    THEN Ret([h EXCEPT !.state = IF name \in DOMAIN @ THEN Remove(@, name) ELSE @], Ok)
    ELSE Status(h)

execute_delete_blockade(h, name, rs) ==
    DeleteResult(Send(h, Delete(<<"blockade", name>>), rs), name)

----------------------------------------------------------------------------
(* The public methods of BlockadeHandler.                                  *)

\* BlockadeHandler::new: the pre-warming list + fetches, errors ignored.
NewHandler == Handler(<<>>, EmptyMap, EmptyMap)

\* The loop of new: Ok and Err of a fetch are both passed over; a panic in
\* the decode unwinds through the loop and through new.
RECURSIVE NewFetch(_, _, _)
NewFetch(h, i, rs) ==
    IF i > Len(h.blockades) THEN Ret(h, Ok)
    ELSE IF Panics(execute_get_blockade(h, h.blockades[i], rs).res)
    THEN execute_get_blockade(h, h.blockades[i], rs)
    ELSE NewFetch(execute_get_blockade(h, h.blockades[i], rs).h, i + 1, rs)

NewResult(a, rs) == IF a.res.ok THEN NewFetch(a.h, 1, rs) ELSE Ret(a.h, Ok)

new(rs) == NewResult(execute_list_blockades(NewHandler, rs), rs)

CachedKeys(h, name) ==
    IF name \in DOMAIN h.state THEN DOMAIN h.state[name].containers ELSE {}

\* The keys in descending order: one order a HashMap may iterate in.
RECURSIVE KeysDescending(_)
KeysDescending(S) ==
    IF S = {} THEN <<>>
    ELSE LET m == CHOOSE x \in S : \A y \in S \ {x} : StrLess(y, x)
         IN <<m>> \o KeysDescending(S \ {m})

\* A get_all_containers without all_containers.sort().
get_all_containers_unsorted(h, name, rs) ==
    Try(execute_get_blockade(h, name, rs),
        LAMBDA a : Ret(a.h, OkVal(KeysDescending(CachedKeys(a.h, name)))))

get_all_containers(h, name, rs) ==
    Try(execute_get_blockade(h, name, rs),
        LAMBDA a : Ret(a.h, OkVal(SortedKeys(CachedKeys(a.h, name)))))

MsgNotFound == "Blockade not found in map"
MsgNoContainers == "No containers to choose from"

\* A choose_random_container with one error for both failures.
choose_random_container_one_error(h, name) ==
    IF name \in DOMAIN h.state /\ Cardinality(DOMAIN h.state[name].containers) >= 1
    THEN {Ret(h, OkVal(c)) : c \in DOMAIN h.state[name].containers}
    ELSE {Ret(h, Err(OtherError(MsgNotFound)))}

\* A choose_random_container that takes the first key instead of drawing.
choose_random_container_first(h, name) ==
    IF name \in DOMAIN h.state /\ Cardinality(DOMAIN h.state[name].containers) >= 1
    THEN {Ret(h, OkVal(SortedKeys(DOMAIN h.state[name].containers)[1]))}
    ELSE IF name \notin DOMAIN h.state
    THEN {Ret(h, Err(OtherError(MsgNotFound)))}
    ELSE {Ret(h, Err(OtherError(MsgNoContainers)))}

\* The set of outcomes: the container is drawn at random
\* (seq::sample_iter over the keys of the cached entry).
choose_random_container(h, name) ==
    IF name \in DOMAIN h.state /\ Cardinality(DOMAIN h.state[name].containers) >= 1
    THEN {Ret(h, OkVal(c)) : c \in DOMAIN h.state[name].containers}
    ELSE IF name \notin DOMAIN h.state
    THEN {Ret(h, Err(OtherError(MsgNotFound)))}
    ELSE {Ret(h, Err(OtherError(MsgNoContainers)))}

destroy_blockade(h, name, rs) ==
    Try(execute_get_blockade(h, name, rs),
        LAMBDA a : execute_delete_blockade(a.h, name, rs))

\* The Err arm of start_blockade's match that recreates: restart is set and
\* the error is ServerError("Blockade name already exists").
Recreates(a, restart) ==
    /\ ~a.res.ok
    /\ restart
    /\ a.res.err.kind = "ServerError"
    /\ a.res.err.body = TextBody(ConflictText)

\* A start_blockade that treats the second create like the first: its
\* error is dropped.
start_blockade_match_dropping(a, name, cfg, restart, rs) ==
    IF Recreates(a, restart)
    THEN Try(destroy_blockade(a.h, name, rs),
             LAMBDA d : Ret(execute_setup(d.h, name, cfg, rs).h, Ok))
    ELSE execute_get_blockade(a.h, name, rs)

\* start_blockade once the first execute_setup has returned a.
start_blockade_match(a, name, cfg, restart, rs) ==
    IF Recreates(a, restart)
    THEN Try(destroy_blockade(a.h, name, rs),
             LAMBDA d : execute_setup(d.h, name, cfg, rs))
    ELSE execute_get_blockade(a.h, name, rs)

start_blockade(h, name, cfg, restart, rs) ==
    start_blockade_match(execute_setup(h, name, cfg, rs), name, cfg, restart, rs)

\* A container command without the `?`: the refresh follows a failed command.
container_command_unchecked(h, name, command, container, rs) ==
    execute_get_blockade(execute_command(h, name, command, <<container>>, rs).h,
                         name, rs)

\* start_container, stop_container, restart_container, kill_container.
container_command(h, name, command, container, rs) ==
    Try(execute_command(h, name, command, <<container>>, rs),
        LAMBDA a : execute_get_blockade(a.h, name, rs))

start_container(h, name, container, rs) ==
    container_command(h, name, "Start", container, rs)

stop_container(h, name, container, rs) ==
    container_command(h, name, "Stop", container, rs)

restart_container(h, name, container, rs) ==
    container_command(h, name, "Restart", container, rs)

kill_container(h, name, container, rs) ==
    container_command(h, name, "Kill", container, rs)

\* restart_one and kill_one: the set of outcomes, one per possible draw.
restart_one(h, name, rs) ==
    {Try(c, LAMBDA c1 :
            Try(restart_container(c1.h, name, c1.res.val, rs),
                LAMBDA a : Ret(a.h, OkVal(c1.res.val))))
     : c \in choose_random_container(h, name)}

\* A kill_one that reports a fresh draw instead of the container it killed.
kill_one_redrawing(h, name, rs) ==
    {Try(c, LAMBDA c1 :
            Try(kill_container(c1.h, name, c1.res.val, rs),
                LAMBDA a : Ret(a.h, OkVal(c2))))
     : c \in choose_random_container(h, name), c2 \in CachedKeys(h, name)}

kill_one(h, name, rs) ==
    {Try(c, LAMBDA c1 :
            Try(kill_container(c1.h, name, c1.res.val, rs),
                LAMBDA a : Ret(a.h, OkVal(c1.res.val))))
     : c \in choose_random_container(h, name)}

make_partitions(h, name, partitions, rs) ==
    Try(execute_partition(h, name, partitions, rs),
        LAMBDA a : execute_get_blockade(a.h, name, rs))

\* A heal_partitions that leaves the shadow as it was.
heal_partitions_stale(h, name, rs) == execute_restore_network(h, name, rs)

heal_partitions(h, name, rs) ==
    Try(execute_restore_network(h, name, rs),
        LAMBDA a : execute_get_blockade(a.h, name, rs))

\* A net command that sends one request per container.
RECURSIVE NetEach(_, _, _, _, _, _)
NetEach(h, name, network_state, list, i, rs) ==
    IF i > Len(list) THEN Ret(h, Ok)
    ELSE Try(execute_net_command(h, name, network_state, <<list[i]>>, rs),
             LAMBDA a : NetEach(a.h, name, network_state, list, i + 1, rs))

net_command_each(h, name, network_state, rs) ==
    Try(get_all_containers(h, name, rs),
        LAMBDA all :
            Try(NetEach(all.h, name, network_state, all.res.val, 1, rs),
                LAMBDA a : execute_get_blockade(a.h, name, rs)))

\* make_net_unreliable and make_net_fast.
net_command(h, name, network_state, rs) ==
    Try(get_all_containers(h, name, rs),
        LAMBDA all :
            Try(execute_net_command(all.h, name, network_state, all.res.val, rs),
                LAMBDA a : execute_get_blockade(a.h, name, rs)))

make_net_unreliable(h, name, rs) == net_command(h, name, "Flaky", rs)

make_net_fast(h, name, rs) == net_command(h, name, "Fast", rs)

RECURSIVE FetchEach(_, _, _, _)
FetchEach(h, list, i, rs) ==
    IF i > Len(list) THEN Ret(h, Ok)
    ELSE Try(execute_get_blockade(h, list[i], rs),
             LAMBDA a : FetchEach(a.h, list, i + 1, rs))

fetch_state(h, rs) ==
    Try(execute_list_blockades(h, rs),
        LAMBDA a : FetchEach(a.h, a.h.blockades, 1, rs))

----------------------------------------------------------------------------
(* Calls.  A call is a method with its arguments; running it against a     *)
(* script gives its outcomes (one, or one per random draw).                *)

Call(op, name, args) == [op |-> op, name |-> name, args |-> args]
NoArgs == [none |-> TRUE]

ContainerOps == {"start_container", "stop_container", "restart_container",
                 "kill_container"}

Run(h, c, rs) ==
    CASE c.op = "new" -> {new(rs)}
      [] c.op = "get_all_containers" -> {get_all_containers(h, c.name, rs)}
      [] c.op = "choose_random_container" -> choose_random_container(h, c.name)
      [] c.op = "start_blockade" ->
            {start_blockade(h, c.name, c.args.config, c.args.restart, rs)}
      [] c.op = "start_container" ->
            {start_container(h, c.name, c.args.container, rs)}
      [] c.op = "stop_container" ->
            {stop_container(h, c.name, c.args.container, rs)}
      [] c.op = "restart_container" ->
            {restart_container(h, c.name, c.args.container, rs)}
      [] c.op = "kill_container" ->
            {kill_container(h, c.name, c.args.container, rs)}
      [] c.op = "restart_one" -> restart_one(h, c.name, rs)
      [] c.op = "kill_one" -> kill_one(h, c.name, rs)
      [] c.op = "make_partitions" ->
            {make_partitions(h, c.name, c.args.partitions, rs)}
      [] c.op = "heal_partitions" -> {heal_partitions(h, c.name, rs)}
      [] c.op = "make_net_unreliable" -> {make_net_unreliable(h, c.name, rs)}
      [] c.op = "make_net_fast" -> {make_net_fast(h, c.name, rs)}
      [] c.op = "destroy_blockade" -> {destroy_blockade(h, c.name, rs)}
      [] c.op = "fetch_state" -> {fetch_state(h, rs)}

\* A run is cut short when a request found the script exhausted.
Missing(e) == "missing" \in DOMAIN e.resp
CutShort(o) == \E i \in 1..Len(o.h.log) : Missing(o.h.log[i])
FirstMissing(o) ==
    o.h.log[CHOOSE i \in 1..Len(o.h.log) :
                Missing(o.h.log[i]) /\ \A j \in 1..(i - 1) : ~Missing(o.h.log[j])].req

\* The answers that may come next in a script rs of call c: those to the
\* request that found rs exhausted, or Unused when rs answers every request.
Unused == [sent |-> FALSE, unused |-> TRUE]

Awaited(cut) ==
    IF cut = {} THEN {Unused} ELSE UNION {ResponsesFor(FirstMissing(o)) : o \in cut}

More(h, c, rs) == Awaited({o \in Run(h, c, rs) : CutShort(o)})

NoCall == [op |-> "none", name |-> "", args |-> NoArgs, log |-> <<>>, result |-> Ok]

H == Handler(blockades, state, config)

\* What the caller observes of call c when it returns with outcome o.
Observed(c, o) ==
    [op |-> c.op, name |-> c.name, args |-> c.args, log |-> o.h.log, result |-> o.res]

\* The handler runs call c to its end, against any script of answers: no
\* method sends more than four requests (start_blockade's create, fetch,
\* delete, create; fetch_state's list and one fetch per listed name).
Do(c) ==
    \E r1 \in More(H, c, <<>>) :
    \E r2 \in More(H, c, <<r1>>) :
    \E r3 \in More(H, c, <<r1, r2>>) :
    \E r4 \in More(H, c, <<r1, r2, r3>>) :
    \E o \in Run(H, c, <<r1, r2, r3, r4>>) :
        /\ ~CutShort(o)
        /\ blockades' = o.h.blockades
        /\ state' = o.h.state
        /\ config' = o.h.config
        /\ call' = Observed(c, o)
        /\ UNCHANGED <<server, scenario, wire>>

PartitionArgs == {<<>>, <<<<CA>>, <<CB>>>>, <<<<CA, CB>>>>}

----------------------------------------------------------------------------
(* The specification.                                                      *)

NewCall == Call("new", "", NoArgs)

\* Outside SpecService there is no service state to follow, and outside
\* SpecWire no value in serde.
NoServer == [x \in {} |-> {}]
NoScenario == "none"
NoWire == [type |-> "none"]

\* The state after BlockadeHandler::new(host).  When the decode of a
\* pre-warming fetch panics, new unwinds: no handler is constructed and no
\* call follows.
Init ==
    \E r1 \in More(NewHandler, NewCall, <<>>) :
    \E r2 \in More(NewHandler, NewCall, <<r1>>) :
    \E r3 \in More(NewHandler, NewCall, <<r1, r2>>) :
    \E o \in Run(NewHandler, NewCall, <<r1, r2, r3>>) :
        /\ ~CutShort(o)
        /\ blockades = o.h.blockades
        /\ state = o.h.state
        /\ config = o.h.config
        /\ call = Observed(NewCall, o)
        /\ server = NoServer
        /\ scenario = NoScenario
        /\ wire = NoWire

GetAllContainers ==
    /\ call = NoCall
    /\ \E n \in Names : Do(Call("get_all_containers", n, NoArgs))

ChooseRandomContainer ==
    /\ call = NoCall
    /\ \E n \in Names : Do(Call("choose_random_container", n, NoArgs))

StartBlockade ==
    /\ call = NoCall
    /\ \E n \in Names, cfg \in Configs, restart \in BOOLEAN :
          Do(Call("start_blockade", n, [config |-> cfg, restart |-> restart]))

StartContainer ==
    /\ call = NoCall
    /\ \E n \in Names, c \in TargetNames :
          Do(Call("start_container", n, [container |-> c]))

StopContainer ==
    /\ call = NoCall
    /\ \E n \in Names, c \in TargetNames :
          Do(Call("stop_container", n, [container |-> c]))

RestartContainer ==
    /\ call = NoCall
    /\ \E n \in Names, c \in TargetNames :
          Do(Call("restart_container", n, [container |-> c]))

KillContainer ==
    /\ call = NoCall
    /\ \E n \in Names, c \in TargetNames :
          Do(Call("kill_container", n, [container |-> c]))

RestartOne ==
    /\ call = NoCall
    /\ \E n \in Names : Do(Call("restart_one", n, NoArgs))

KillOne ==
    /\ call = NoCall
    /\ \E n \in Names : Do(Call("kill_one", n, NoArgs))

MakePartitions ==
    /\ call = NoCall
    /\ \E n \in Names, p \in PartitionArgs :
          Do(Call("make_partitions", n, [partitions |-> p]))

HealPartitions ==
    /\ call = NoCall
    /\ \E n \in Names : Do(Call("heal_partitions", n, NoArgs))

MakeNetUnreliable ==
    /\ call = NoCall
    /\ \E n \in Names : Do(Call("make_net_unreliable", n, NoArgs))

MakeNetFast ==
    /\ call = NoCall
    /\ \E n \in Names : Do(Call("make_net_fast", n, NoArgs))

DestroyBlockade ==
    /\ call = NoCall
    /\ \E n \in Names : Do(Call("destroy_blockade", n, NoArgs))

FetchState ==
    /\ call = NoCall
    /\ Do(Call("fetch_state", "", NoArgs))

\* The caller takes the result; the handler is ready for the next call.
\* After a panic there is no caller to return to: the thread has unwound.
Return ==
    /\ call # NoCall
    /\ ~Panics(call.result)
    /\ call' = NoCall
    /\ UNCHANGED <<blockades, state, config, server, scenario, wire>>

Next ==
    \/ GetAllContainers
    \/ ChooseRandomContainer
    \/ StartBlockade
    \/ StartContainer
    \/ StopContainer
    \/ RestartContainer
    \/ KillContainer
    \/ RestartOne
    \/ KillOne
    \/ MakePartitions
    \/ HealPartitions
    \/ MakeNetUnreliable
    \/ MakeNetFast
    \/ DestroyBlockade
    \/ FetchState
    \/ Return

Spec == Init /\ [][Next]_vars

----------------------------------------------------------------------------
(* SpecWire: values going through serde.  A value of one of the types is   *)
(* serialized and its JSON read back, or a JSON text of the service is     *)
(* deserialized and the value written again.                               *)

Values(type) ==
    CASE type = "Command" -> {"Start", "Stop", "Restart", "Kill"}
      [] type = "NetStatus" -> {"Fast", "Slow", "Duplicate", "Flaky", "Unknown"}
      [] type = "ContainerStatus" -> {"Up", "Down", "Missing"}
      [] type = "ContainerState" ->
            {ContainerStateDefault,
             ContainerState("veth0", "172.17.0.2", "Fast", None, "Up")}

\* The tokens the service may send for an enum.
Tokens(type) ==
    CASE type = "Command" ->
            {"start", "stop", "restart", "kill", "START", "bogus"}
      [] type = "NetStatus" ->
            {"NORMAL", "FAST", "SLOW", "DUPLICATE", "FLAKY", "UNKNOWN",
             "fast", "slow", "duplicate", "flaky", "unknown", "bogus"}
      [] type = "ContainerStatus" ->
            {"UP", "DOWN", "MISSING", "up", "down", "missing", "bogus"}

\* The container states the service may send.
ContainerDocs ==
    [device : {Absent, JNull, JStr(""), JStr("veth0")},
     ip_address : {Absent, JNull, JStr("172.17.0.2")},
     network_state : {JStr("NORMAL"), JStr("FLAKY"), JStr("fast"), JStr("bogus")},
     partition : {Absent, JNull, JNum(-1)} \cup {JNum(n) : n \in 0..MaxPartition},
     status : {JStr("UP"), JStr("up")}]

Texts(type) ==
    IF type \in EnumTypes THEN {JStr(t) : t \in Tokens(type)} \cup {JNull}
    ELSE ContainerDocs

\* A value in serde: the value a caller serializes (value), the JSON read
\* (json), what reading it gave (decoded) and the JSON of writing that
\* again (again); each None until it is there.
Wire(type, value, json) ==
    [type |-> type, value |-> value, json |-> json, decoded |-> None, again |-> None]

WireTypes == EnumTypes \cup {"ContainerState"}

WireInit ==
    /\ blockades = <<>>
    /\ state = EmptyMap
    /\ config = EmptyMap
    /\ call = NoCall
    /\ server = NoServer
    /\ scenario = NoScenario
    /\ \E type \in WireTypes :
          \/ \E v \in Values(type) : wire = Wire(type, Some(v), None)
          \/ \E j \in Texts(type) : wire = Wire(type, None, Some(j))

\* serde_json::to_string of the caller's value, or of the value just read.
SerializeValue ==
    /\ wire.type \in WireTypes
    /\ \/ /\ wire.value # None /\ wire.json = None
          /\ wire' = [wire EXCEPT !.json = Some(Serialize(wire.type, wire.value[1]))]
       \/ /\ wire.decoded # None /\ wire.decoded[1].ok /\ wire.again = None
          /\ wire' = [wire EXCEPT
                         !.again = Some(Serialize(wire.type, wire.decoded[1].val))]
    /\ UNCHANGED <<blockades, state, config, call, server, scenario>>

\* serde_json::from_str of the JSON.
DeserializeText ==
    /\ wire.type \in WireTypes
    /\ wire.json # None /\ wire.decoded = None
    /\ \E r \in Deserialize(wire.type, wire.json[1]) :
          wire' = [wire EXCEPT !.decoded = Some(r)]
    /\ UNCHANGED <<blockades, state, config, call, server, scenario>>

WireNext == SerializeValue \/ DeserializeText

SpecWire == WireInit /\ [][WireNext]_vars

----------------------------------------------------------------------------
(* SpecService: one handler in front of a service that does what it is     *)
(* asked: it creates and deletes blockades, applies partitions and heals   *)
(* them, and reports the state it holds.                                   *)

\* A container as the service reports it, in partition p (null: None).
ServiceContainer(p) == ContainerState("veth0", "172.17.0.2", "Fast", p, "Up")

\* The blockade the service makes of a config.
Created(cfg) == [containers |-> [c \in cfg.containers |-> ServiceContainer(None)]]

\* The group of the partitioning that names container c, if any.
GroupOf(partitions, c) ==
    IF \E k \in 1..Len(partitions) : \E i \in 1..Len(partitions[k]) : partitions[k][i] = c
    THEN Some(CHOOSE k \in 1..Len(partitions) :
                 \E i \in 1..Len(partitions[k]) : partitions[k][i] = c)
    ELSE None

Partitioned(b, partitions) ==
    [containers |->
        [c \in DOMAIN b.containers |-> ServiceContainer(GroupOf(partitions, c))]]

Healed(b) == [containers |-> [c \in DOMAIN b.containers |-> ServiceContainer(None)]]

\* The names the service lists.
ServiceNames(srv) ==
    IF DOMAIN srv = {} THEN <<>>
    ELSE IF DOMAIN srv = {"b1"} THEN <<"b1">>
    ELSE IF DOMAIN srv = {"b2"} THEN <<"b2">>
    ELSE <<"b1", "b2">>

Answered(srv, resp) == [srv |-> srv, resp |-> resp]

Accept == Response(TRUE, TextBody(""))
Refuse(t) == Response(FALSE, TextBody(t))

\* The service answers request req and becomes what srv says.
Answer(srv, req) ==
    IF Len(req.path) = 1
    THEN Answered(srv, Response(TRUE, ListBody(ServiceNames(srv))))
    ELSE IF req.path[2] \notin DOMAIN srv
    THEN IF req.method = "POST" /\ Len(req.path) = 2
         THEN Answered(Insert(srv, req.path[2], Created(req.json)), Accept)
         ELSE Answered(srv, Refuse("Internal Server Error"))
    ELSE IF Len(req.path) = 2
    THEN CASE req.method = "POST" -> Answered(srv, Refuse(ConflictText))
           [] req.method = "GET" ->
                 Answered(srv, Response(TRUE, StateBody(srv[req.path[2]])))
           [] req.method = "DELETE" -> Answered(Remove(srv, req.path[2]), Accept)
    ELSE IF req.path[3] = "partitions"
    THEN IF req.method = "POST"
         THEN Answered([srv EXCEPT ![req.path[2]] = Partitioned(@, req.json.partitions)],
                       Accept)
         ELSE Answered([srv EXCEPT ![req.path[2]] = Healed(@)], Accept)
    ELSE Answered(srv, Accept)

\* The handler and the service talk until call c has all its answers:
\* the answers, and the service after them.
RECURSIVE Converse(_, _, _, _)
RECURSIVE ConverseOn(_, _, _, _, _)
RECURSIVE ConverseWith(_, _, _, _)

Converse(h, c, srv, rs) ==
    ConverseOn({o \in Run(h, c, rs) : CutShort(o)}, h, c, srv, rs)

ConverseOn(cut, h, c, srv, rs) ==
    IF cut = {} THEN [rs |-> rs, srv |-> srv]
    ELSE ConverseWith(Answer(srv, FirstMissing(CHOOSE o \in cut : TRUE)), h, c, rs)

ConverseWith(a, h, c, rs) == Converse(h, c, a.srv, Append(rs, a.resp))

\* The caller's scenario on blockade "b1": it creates b1 with containers a
\* and b, partitions a from b, then heals.
ScenarioPartitions == <<<<CA>>, <<CB>>>>

NextScenario(s, c, o) ==
    IF c.name # "b1" THEN s
    ELSE IF c.op = "start_blockade"
            /\ \E i \in 1..Len(o.h.log) :
                  /\ o.h.log[i].req.method = "POST"
                  /\ o.h.log[i].resp.sent /\ o.h.log[i].resp.success
    THEN IF o.res.ok /\ c.args.config.containers = {CA, CB} THEN "created" ELSE "none"
    ELSE IF c.op = "destroy_blockade" /\ o.res.ok THEN "none"
    ELSE IF c.op = "make_partitions" /\ o.res.ok /\ s # "none"
    THEN IF c.args.partitions = ScenarioPartitions THEN "partitioned" ELSE "created"
    ELSE IF c.op = "heal_partitions" /\ o.res.ok /\ s = "partitioned" THEN "healed"
    ELSE s

\* Call c, answered by the service.
Served(h, c, v) ==
    \E o \in Run(h, c, v.rs) :
        /\ ~CutShort(o)
        /\ blockades' = o.h.blockades
        /\ state' = o.h.state
        /\ config' = o.h.config
        /\ call' = Observed(c, o)
        /\ server' = v.srv
        /\ scenario' = NextScenario(scenario, c, o)
        /\ UNCHANGED wire

ServiceDo(c) == Served(H, c, Converse(H, c, server, <<>>))

\* The services a handler may be constructed in front of.
Servers == {EmptyMap, [n \in {"b1"} |-> Created([containers |-> {CA, CB}])]}

ServiceNew(srv, v) ==
    \E o \in Run(NewHandler, NewCall, v.rs) :
        /\ ~CutShort(o)
        /\ blockades = o.h.blockades
        /\ state = o.h.state
        /\ config = o.h.config
        /\ call = Observed(NewCall, o)
        /\ server = v.srv
        /\ scenario = NoScenario
        /\ wire = NoWire

ServiceInit ==
    \E srv \in Servers : ServiceNew(srv, Converse(NewHandler, NewCall, srv, <<>>))

ServedStartBlockade ==
    /\ call = NoCall
    /\ \E n \in Names, cfg \in Configs, restart \in BOOLEAN :
          ServiceDo(Call("start_blockade", n, [config |-> cfg, restart |-> restart]))

ServedMakePartitions ==
    /\ call = NoCall
    /\ \E n \in Names, p \in PartitionArgs :
          ServiceDo(Call("make_partitions", n, [partitions |-> p]))

ServedHealPartitions ==
    /\ call = NoCall
    /\ \E n \in Names : ServiceDo(Call("heal_partitions", n, NoArgs))

ServedGetAllContainers ==
    /\ call = NoCall
    /\ \E n \in Names : ServiceDo(Call("get_all_containers", n, NoArgs))

ServedDestroyBlockade ==
    /\ call = NoCall
    /\ \E n \in Names : ServiceDo(Call("destroy_blockade", n, NoArgs))

ServiceNext ==
    \/ ServedStartBlockade
    \/ ServedMakePartitions
    \/ ServedHealPartitions
    \/ ServedGetAllContainers
    \/ ServedDestroyBlockade
    \/ Return

SpecService == ServiceInit /\ [][ServiceNext]_vars

----------------------------------------------------------------------------
(* Reading a call's request log.                                           *)

IsCreate(e, n) == e.req.method = "POST" /\ e.req.path = <<"blockade", n>>
IsFetch(e, n) == e.req.method = "GET" /\ e.req.path = <<"blockade", n>>
IsDelete(e, n) == e.req.method = "DELETE" /\ e.req.path = <<"blockade", n>>

\* The request was answered with a 2xx status.
Accepted(e) == e.resp.sent /\ e.resp.success
\* A fetch that was answered with a well-formed state.
FetchedOk(e, n) == IsFetch(e, n) /\ Accepted(e) /\ e.resp.body.t = "state"
\* The request is answered by the conflict message.
Conflict(e) ==
    e.resp.sent /\ ~e.resp.success /\ e.resp.body = TextBody(ConflictText)

Creates(log, n) == {i \in 1..Len(log) : IsCreate(log[i], n)}
Deletes(log, n) == {i \in 1..Len(log) : IsDelete(log[i], n)}

\* The call returned the error of its i-th request.
ReturnsErrorOf(c, i) == ~c.result.ok /\ ~Panics(c.result) /\ c.result.err.at = i

IsStart(c) == c.op = "start_blockade"

----------------------------------------------------------------------------
(* start_blockade.                                                         *)

\* C1: start_blockade(name, cfg, restart=false) whose create request fails
\* returns that create error, and sends no DELETE for name.
C1_CreateErrorPropagates ==
    (IsStart(call) /\ ~call.args.restart /\ ~Accepted(call.log[1]))
        => /\ ReturnsErrorOf(call, 1)
           /\ Deletes(call.log, call.name) = {}

\* C2: start_blockade(name, cfg, restart=true) whose first create meets the
\* conflict and whose later requests all succeed sends the DELETE, then the
\* create, then a closing fetch of name, and returns with the shadow entry
\* of name equal to the state that last fetch returned.
C2_RecreateThenRefresh ==
    (/\ IsStart(call) /\ call.args.restart /\ call.result.ok
     /\ Conflict(call.log[1])
     /\ \A i \in 2..Len(call.log) :
            Accepted(call.log[i])
            /\ (IsFetch(call.log[i], call.name) => FetchedOk(call.log[i], call.name)))
        => \E d, c, f \in 1..Len(call.log) :
              /\ d < c /\ c < f /\ f = Len(call.log)
              /\ IsDelete(call.log[d], call.name)
              /\ IsCreate(call.log[c], call.name)
              /\ call.log[c].req.json = call.args.config
              /\ FetchedOk(call.log[f], call.name)
              /\ call.name \in DOMAIN state
              /\ state[call.name] = call.log[f].resp.body.doc

\* C3: start_blockade(name, cfg, restart=true) whose create fails with
\* anything but the conflict returns that error, sends no DELETE and no
\* second create.
C3_OtherCreateErrorPropagates ==
    (IsStart(call) /\ call.args.restart
     /\ ~Accepted(call.log[1]) /\ ~Conflict(call.log[1]))
        => /\ ReturnsErrorOf(call, 1)
           /\ Deletes(call.log, call.name) = {}
           /\ Creates(call.log, call.name) = {1}

\* C4: one start_blockade sends at most two creates and at most one DELETE
\* for name, and when the second create fails, its error is returned.
C4_RecreateOnce ==
    IsStart(call)
        => /\ Cardinality(Creates(call.log, call.name)) <= 2
           /\ Cardinality(Deletes(call.log, call.name)) <= 1
           /\ \A i \in Creates(call.log, call.name) :
                  (i > 1 /\ ~Accepted(call.log[i])) => ReturnsErrorOf(call, i)

\* A second conflict: create, fetch, DELETE, create, the last one refused
\* with the conflict message again.
C4_Witness ==
    /\ IsStart(call)
    /\ Len(call.log) = 4
    /\ Conflict(call.log[1])
    /\ IsDelete(call.log[3], call.name) /\ Accepted(call.log[3])
    /\ IsCreate(call.log[4], call.name) /\ Conflict(call.log[4])
    /\ call.result = Err(ServerError(TextBody(ConflictText), 4))

----------------------------------------------------------------------------
(* Mutate, then refresh.                                                   *)

\* The shadow entry of a name, as an option.
Entry(m, n) == IF n \in DOMAIN m THEN <<m[n]>> ELSE <<>>

CommandOps == ContainerOps \cup {"restart_one", "kill_one"}

CommandToken(op) ==
    CASE op = "start_container" -> "start"
      [] op = "stop_container" -> "stop"
      [] op \in {"restart_container", "restart_one"} -> "restart"
      [] op \in {"kill_container", "kill_one"} -> "kill"

\* e is the mutating request of call c.
IsMutation(c, e) ==
    CASE c.op \in CommandOps ->
            /\ e.req.method = "POST"
            /\ e.req.path = <<"blockade", c.name, "action">>
            /\ e.req.json.command = CommandToken(c.op)
            /\ Len(e.req.json.container_names) = 1
            /\ c.op \in ContainerOps
                  => e.req.json.container_names = <<c.args.container>>
      [] c.op = "make_partitions" ->
            e.req = Post(<<"blockade", c.name, "partitions">>,
                         [partitions |-> c.args.partitions])
      [] c.op = "heal_partitions" ->
            e.req = Delete(<<"blockade", c.name, "partitions">>)
      [] c.op \in {"make_net_unreliable", "make_net_fast"} ->
            /\ e.req.method = "POST"
            /\ e.req.path = <<"blockade", c.name, "network_state">>
            /\ e.req.json.network_state =
                  (IF c.op = "make_net_fast" THEN "fast" ELSE "flaky")
      [] c.op = "destroy_blockade" -> IsDelete(e, c.name)
      [] OTHER -> FALSE

RefreshingOps ==
    ContainerOps \cup {"make_partitions", "heal_partitions",
                       "make_net_unreliable", "make_net_fast"}

\* C5: start_container, stop_container, restart_container, kill_container,
\* make_partitions, heal_partitions, make_net_unreliable and make_net_fast,
\* when they return Ok, have sent their mutating request for name and then,
\* last, a fetch of name, and the shadow entry of name is exactly the state
\* that fetch returned.
C5_MutateThenRefresh ==
    (call.op \in RefreshingOps /\ call.result.ok)
        => \E i, f \in 1..Len(call.log) :
              /\ i < f /\ f = Len(call.log)
              /\ IsMutation(call, call.log[i])
              /\ FetchedOk(call.log[f], call.name)
              /\ Entry(state, call.name) = <<call.log[f].resp.body.doc>>

\* make_net_unreliable over an entry with containers a and b (partition 0),
\* refreshed to an entry with ab and b (partition 1): a is gone, b is new.
C5_Witness ==
    /\ call.op = "make_net_unreliable" /\ call.result.ok
    /\ call.log[1].resp.body.doc = BlockadeState({CA, CB}, 0)
    /\ call.log[3].resp.body.doc = BlockadeState({CB, CAB}, 1)
    /\ CA \notin DOMAIN state[call.name].containers
    /\ state[call.name].containers[CB].partition = Some(1)

MutatingOps == RefreshingOps \cup {"restart_one", "kill_one", "destroy_blockade"}

\* The entry of name n just before the i-th request of the log: what the
\* last successful fetch before it stored, or else the entry before the call.
EntryBefore(log, i, n, before) ==
    LET fs == {j \in 1..(i - 1) : FetchedOk(log[j], n)}
    IN IF fs = {} THEN Entry(before, n)
       ELSE <<log[CHOOSE j \in fs : \A k \in fs : k <= j].resp.body.doc>>

C6_Step ==
    call'.op \in MutatingOps
        => \A i \in 1..Len(call'.log) :
              (IsMutation(call', call'.log[i]) /\ ~Accepted(call'.log[i]))
                  => /\ ReturnsErrorOf(call', i)
                     /\ i = Len(call'.log)
                     /\ Entry(state', call'.name)
                            = EntryBefore(call'.log, i, call'.name, state)

\* C6: when the mutating request (command, partition, network-state,
\* restore, delete) of an operation fails, the operation returns that error,
\* sends nothing after it, and the shadow entry of name is what it was just
\* before the failed request.
C6_FailedMutationStops == [][C6_Step]_vars

\* destroy_blockade whose fetch succeeds and whose DELETE is refused: the
\* entry stays, as the fetch left it.
C6_Witness ==
    /\ call.op = "destroy_blockade"
    /\ Len(call.log) = 2
    /\ FetchedOk(call.log[1], call.name)
    /\ IsDelete(call.log[2], call.name) /\ ~Accepted(call.log[2])
    /\ ReturnsErrorOf(call, 2)
    /\ Entry(state, call.name) = <<call.log[1].resp.body.doc>>

----------------------------------------------------------------------------
(* The life of a shadow entry.                                             *)

\* A request of the log created or fetched the blockade n with success.
SucceededIn(log, n) ==
    \E i \in 1..Len(log) :
        \/ IsCreate(log[i], n) /\ Accepted(log[i])
        \/ FetchedOk(log[i], n)

\* C7: a name gets an entry in the shadow (state map or config map) only by
\* a create or a fetch of that name that succeeded; one that fails adds none.
C7_EntryOnlyAfterSuccess ==
    [][\A n \in Names :
          (\/ n \in DOMAIN state' /\ n \notin DOMAIN state
           \/ n \in DOMAIN config' /\ n \notin DOMAIN config)
              => SucceededIn(call'.log, n)]_vars

C8_Step ==
    \A n \in Names :
        /\ (n \in DOMAIN state /\ n \notin DOMAIN state')
              => \E i \in 1..Len(call'.log) :
                    IsDelete(call'.log[i], n) /\ Accepted(call'.log[i])
        /\ (/\ call'.op = "destroy_blockade" /\ call'.name = n
            /\ \E i \in 1..Len(call'.log) :
                  IsDelete(call'.log[i], n) /\ Accepted(call'.log[i]))
              => call'.result.ok /\ n \notin DOMAIN state'

\* C8: a cached state entry leaves the shadow only in a call whose DELETE
\* for that name was answered 2xx, and right after a destroy with such a
\* DELETE the shadow has no state entry for the name.
C8_RemovedOnlyByDestroy == [][C8_Step]_vars

\* A destroy that went through: the fetch stored the entry, the DELETE
\* removed it.
C8_Witness ==
    /\ call.op = "destroy_blockade" /\ call.result.ok
    /\ FetchedOk(call.log[1], call.name)
    /\ IsDelete(call.log[2], call.name) /\ Accepted(call.log[2])
    /\ call.name \notin DOMAIN state

----------------------------------------------------------------------------
(* choose_random_container.                                                *)

IsChoose(c) == c.op = "choose_random_container"

C9_Step ==
    IsChoose(call')
        => /\ call'.name \notin DOMAIN state
                => /\ call'.result = Err(OtherError(MsgNotFound))
                   /\ call'.log = <<>>
           /\ (call'.name \in DOMAIN state
               /\ DOMAIN state[call'.name].containers = {})
                => /\ call'.result = Err(OtherError(MsgNoContainers))
                   /\ call'.log = <<>>
           /\ MsgNotFound # MsgNoContainers

\* C9: choose_random_container(name) fails with an OtherError, no request
\* sent, when the shadow has no entry for name, and with an OtherError of
\* another message when the entry of name has no container.
C9_ChooseFails == [][C9_Step]_vars

\* The entry is there and empty.
C9_Witness ==
    /\ IsChoose(call)
    /\ call.name \in DOMAIN state
    /\ DOMAIN state[call.name].containers = {}
    /\ call.result = Err(OtherError(MsgNoContainers))

\* The choice of container k for blockade n, as one step.
Chooses(n, k) ==
    ChooseRandomContainer /\ call'.name = n /\ call'.result = OkVal(k)

C10_Step ==
    (/\ IsChoose(call')
     /\ call'.name \in DOMAIN state
     /\ DOMAIN state[call'.name].containers # {})
        => /\ call'.result.ok
           /\ call'.result.val \in DOMAIN state[call'.name].containers
           /\ \A k \in DOMAIN state[call'.name].containers :
                  ENABLED Chooses(call'.name, k)
           /\ call'.log = <<>>
           /\ UNCHANGED <<blockades, state, config>>

\* C10: over an entry with at least one container, choose_random_container
\* returns Ok with a key of the cached container set, any key of that set
\* can be the result, no request is sent and the shadow is left as it was.
C10_ChooseFromCache == [][C10_Step]_vars

\* The second of two cached keys is drawn.
C10_Witness ==
    /\ IsChoose(call) /\ call.result.ok
    /\ call.name \in DOMAIN state
    /\ DOMAIN state[call.name].containers = {CA, CB}
    /\ call.result.val = CB
    /\ call.log = <<>>

----------------------------------------------------------------------------
(* restart_one and kill_one.                                               *)

OneOps == {"restart_one", "kill_one"}

\* The command requests of a log for blockade n.
Commands(log, n) ==
    {i \in 1..Len(log) :
        /\ log[i].req.method = "POST"
        /\ log[i].req.path = <<"blockade", n, "action">>}

C11_Step ==
    call'.op \in OneOps
        => /\ call'.result.ok
                => /\ call'.result.val \in CachedKeys(H, call'.name)
                   /\ \E i \in 1..Len(call'.log) :
                         /\ Commands(call'.log, call'.name) = {i}
                         /\ call'.log[i].req.json =
                               [command |-> CommandToken(call'.op),
                                container_names |-> <<call'.result.val>>]
           /\ CachedKeys(H, call'.name) = {}
                => /\ call'.result =
                         Err(OtherError(IF call'.name \in DOMAIN state
                                        THEN MsgNoContainers ELSE MsgNotFound))
                   /\ call'.log = <<>>

\* C11: kill_one(name) and restart_one(name), when they return Ok(c), have
\* sent exactly one command request (kill, respectively restart) whose
\* container list is <<c>>, c being a container key of the shadow entry of
\* name when the call began; when the selection fails (no entry, or no
\* container) they return that error and send no request.
C11_OneCommandForTheChosen == [][C11_Step]_vars

\* kill_one draws b out of {a, b}, the refresh no longer lists a or the
\* old b: the result is still the b that was killed.
C11_Witness ==
    /\ call.op = "kill_one" /\ call.result = OkVal(CB)
    /\ Len(call.log) = 2
    /\ call.log[1].req.json = [command |-> "kill", container_names |-> <<CB>>]
    /\ FetchedOk(call.log[2], call.name)
    /\ DOMAIN state[call.name].containers = {CB, CAB}

----------------------------------------------------------------------------
(* get_all_containers.                                                     *)

\* The sequence is strictly ascending in String order.
Ascending(v) == \A i, j \in 1..Len(v) : i < j => StrLess(v[i], v[j])

\* C12: get_all_containers(name), when it returns Ok, returns every
\* container name of the cached state of name exactly once, in ascending
\* lexicographic order.
C12_AllContainersSorted ==
    (call.op = "get_all_containers" /\ call.result.ok)
        => /\ call.name \in DOMAIN state
           /\ {call.result.val[i] : i \in 1..Len(call.result.val)}
                 = DOMAIN state[call.name].containers
           /\ Len(call.result.val)
                 = Cardinality(DOMAIN state[call.name].containers)
           /\ Ascending(call.result.val)

\* "ab" comes before "b": the order is by letters, not by length.
C12_Witness ==
    /\ call.op = "get_all_containers"
    /\ call.result = OkVal(<<CAB, CB>>)
    /\ DOMAIN state[call.name].containers = {CB, CAB}

----------------------------------------------------------------------------
(* make_net_unreliable and make_net_fast.                                  *)

NetOps == {"make_net_unreliable", "make_net_fast"}

\* The network-state requests of a log for blockade n.
NetRequests(log, n) ==
    {i \in 1..Len(log) :
        /\ log[i].req.method = "POST"
        /\ log[i].req.path = <<"blockade", n, "network_state">>}

\* The i-th request of call c is the network-state request of c's method
\* over all the containers of the shadow entry, which the fetch just before
\* it stored.
NetRequestOverAll(c, i) ==
    /\ i > 1
    /\ FetchedOk(c.log[i - 1], c.name)
    /\ c.log[i].req.json =
          [network_state |-> IF c.op = "make_net_fast" THEN "fast" ELSE "flaky",
           container_names |->
               SortedKeys(DOMAIN c.log[i - 1].resp.body.doc.containers)]

\* C13: make_net_unreliable(name) and make_net_fast(name) each send exactly
\* one network-state request per call, with state Flaky respectively Fast,
\* over the sorted list of all container names of the shadow entry of name.
C13_OneNetRequest ==
    call.op \in NetOps
        => \E i \in 1..Len(call.log) :
              /\ NetRequests(call.log, call.name) = {i}
              /\ NetRequestOverAll(call, i)

\* C13, amended: at most one network-state request per call; exactly one,
\* as described, when the fetch that resolves the containers succeeds, and
\* none when that fetch fails: the call ends there, without success.
C13_OneNetRequestAfterFetch ==
    call.op \in NetOps
        => /\ Cardinality(NetRequests(call.log, call.name)) <= 1
           /\ FetchedOk(call.log[1], call.name)
                => /\ NetRequests(call.log, call.name) = {2}
                   /\ NetRequestOverAll(call, 2)
           /\ ~FetchedOk(call.log[1], call.name)
                => /\ NetRequests(call.log, call.name) = {}
                   /\ Len(call.log) = 1
                   /\ ~call.result.ok

\* make_net_fast over the two containers ab and b: one request for both.
C13_Witness ==
    /\ call.op = "make_net_fast" /\ call.result.ok
    /\ Len(call.log) = 3
    /\ call.log[2].req.json =
          [network_state |-> "fast", container_names |-> <<CAB, CB>>]

----------------------------------------------------------------------------
(* fetch_state and new.                                                    *)

IsList(e) == e.req = Get(<<"blockade">>)

\* A list request answered 2xx with a body that parses as a map of lists.
ListedOk(e) ==
    IsList(e) /\ Accepted(e) /\ e.resp.body.t \in {"list", "nokey"}

\* The names a list answer carries.
Listed(e) == IF e.resp.body.t = "list" THEN e.resp.body.names ELSE <<>>

C14_Step ==
    call'.op = "fetch_state"
        => /\ IsList(call'.log[1])
           /\ ~ListedOk(call'.log[1])
                => /\ ReturnsErrorOf(call', 1)
                   /\ Len(call'.log) = 1
                   /\ state' = state
           /\ ListedOk(call'.log[1])
                => /\ Len(call'.log) <= 1 + Len(Listed(call'.log[1]))
                   /\ \A i \in 2..Len(call'.log) :
                         /\ IsFetch(call'.log[i], Listed(call'.log[1])[i - 1])
                         /\ ~FetchedOk(call'.log[i], Listed(call'.log[1])[i - 1])
                               => ReturnsErrorOf(call', i) /\ i = Len(call'.log)
                   /\ call'.result.ok
                         => Len(call'.log) = 1 + Len(Listed(call'.log[1]))
                   /\ \A n \in Names :
                         Entry(state', n)
                             = EntryBefore(call'.log, Len(call'.log) + 1, n, state)

\* C14: fetch_state lists the names and then refreshes each in list order,
\* failing fast: when the list request or the refresh of the k-th name
\* fails, it returns that error and sends no further refresh, the entries
\* of the names refreshed before k hold their newly fetched state and every
\* other entry is unchanged; when all succeed, every listed name has an
\* entry equal to its fetched state.
C14_FetchStateFailsFast == [][C14_Step]_vars

\* A request of the pre-warming failed.
PrewarmFailure(log) ==
    \/ ~ListedOk(log[1])
    \/ \E i \in 2..Len(log) : ~FetchedOk(log[i], log[i].req.path[2])

\* C15: BlockadeHandler::new never fails, and when a request of its
\* pre-warming (the list request or a per-blockade fetch) fails, the
\* failure is ignored and the shadow of the constructed handler is empty.
C15_NewIgnoresFailures ==
    call.op = "new"
        => /\ call.result.ok
           /\ PrewarmFailure(call.log) => state = EmptyMap

----------------------------------------------------------------------------
(* execute_list_blockades.                                                 *)

\* C20: listing blockades on a 2xx response whose body is {} (no
\* "blockades" key) yields Ok and an empty name list, not an error; when the
\* key is present the name list is exactly the listed names.
C20_ListWithoutKey ==
    (call.op \in {"new", "fetch_state"} /\ Accepted(call.log[1]))
        => /\ call.log[1].resp.body = NoKeyBody
                => /\ blockades = <<>>
                   /\ call.result.ok
                   /\ Len(call.log) = 1
           /\ call.log[1].resp.body.t = "list"
                => /\ blockades = call.log[1].resp.body.names
                   /\ ~ReturnsErrorOf(call, 1)

\* fetch_state is answered {} while the shadow still holds an entry.
C20_Witness ==
    /\ call.op = "fetch_state"
    /\ Accepted(call.log[1])
    /\ call.log[1].resp.body = NoKeyBody
    /\ call.result.ok
    /\ blockades = <<>>
    /\ state # EmptyMap

----------------------------------------------------------------------------
(* The wire form of the enums and of the container state (SpecWire).       *)

\* The fixed lowercase token of an enum value.
LowercaseToken(v) ==
    CASE v = "Start" -> "start"
      [] v = "Stop" -> "stop"
      [] v = "Restart" -> "restart"
      [] v = "Kill" -> "kill"
      [] v = "Fast" -> "fast"
      [] v = "Slow" -> "slow"
      [] v = "Duplicate" -> "duplicate"
      [] v = "Flaky" -> "flaky"
      [] v = "Unknown" -> "unknown"
      [] v = "Up" -> "up"
      [] v = "Down" -> "down"
      [] v = "Missing" -> "missing"

LowercaseTokens(type) == {LowercaseToken(v) : v \in Values(type)}

\* The uppercase aliases of NetworkStatus and the values they stand for.
UppercaseAliases == {"NORMAL", "FAST", "SLOW", "DUPLICATE", "FLAKY", "UNKNOWN"}

AliasValue(t) ==
    CASE t \in {"NORMAL", "FAST"} -> "Fast"
      [] t = "SLOW" -> "Slow"
      [] t = "DUPLICATE" -> "Duplicate"
      [] t = "FLAKY" -> "Flaky"
      [] t = "UNKNOWN" -> "Unknown"

\* The tokens decode is to accept for a type.
AcceptedTokens(type) ==
    LowercaseTokens(type) \cup (IF type = "NetStatus" THEN UppercaseAliases ELSE {})

\* The JSON read is the string token t.
ReadToken(t) == wire.json = Some(JStr(t))

\* C17: for Command, NetworkStatus and ContainerStatus, decode accepts the
\* lowercase token encode produces for every value, so that encode followed
\* by decode returns the value; for NetworkStatus decode also accepts the
\* uppercase aliases NORMAL, FAST, SLOW, DUPLICATE, FLAKY and UNKNOWN (NORMAL
\* and FAST both giving Fast); and encode emits the fixed lowercase token
\* whatever token the value was decoded from.
C17_EnumRoundTrip ==
    wire.type \in EnumTypes
        => /\ (wire.value # None /\ wire.json # None)
                => wire.json = Some(JStr(LowercaseToken(wire.value[1])))
           /\ (wire.value # None /\ wire.decoded # None)
                => wire.decoded = Some(OkVal(wire.value[1]))
           /\ \A t \in LowercaseTokens(wire.type) :
                (ReadToken(t) /\ wire.decoded # None)
                    => /\ wire.decoded[1].ok
                       /\ LowercaseToken(wire.decoded[1].val) = t
           /\ \A t \in UppercaseAliases :
                (wire.type = "NetStatus" /\ ReadToken(t) /\ wire.decoded # None)
                    => wire.decoded = Some(OkVal(AliasValue(t)))
           /\ wire.again # None
                => wire.again = Some(JStr(LowercaseToken(wire.decoded[1].val)))

\* C18: decoding an enum from a token outside its accepted set yields a
\* decode error returned to the caller: never a value, never a panic.
C18_UnknownTokenIsDecodeError ==
    (/\ wire.type \in EnumTypes
     /\ wire.decoded # None
     /\ \E t \in Tokens(wire.type) \ AcceptedTokens(wire.type) : ReadToken(t))
        => /\ ~Panics(wire.decoded[1])
           /\ ~wire.decoded[1].ok
           /\ wire.decoded[1].err.kind = "JsonError"

\* A container state whose fields are all well formed or in one of the
\* forms decode is to tolerate.
Tolerated(doc) ==
    /\ doc.device.j \in {"absent", "null", "string"}
    /\ \/ doc.ip_address \in {Absent, JNull}
       \/ doc.ip_address.j = "string" /\ doc.ip_address.s \in ValidIps
    /\ doc.partition \in {Absent, JNull} \cup {JNum(n) : n \in 0..MaxPartition}
    /\ doc.network_state \in {JStr(t) : t \in UppercaseAliases}
    /\ doc.status \in {JStr("UP"), JStr("DOWN"), JStr("MISSING")}

\* What decoding a tolerated container state is to give.
Normalised(doc) ==
    ContainerState(IF doc.device.j = "string" THEN doc.device.s ELSE "",
                   IF doc.ip_address.j = "string" THEN doc.ip_address.s ELSE "0.0.0.0",
                   AliasValue(doc.network_state.s),
                   IF doc.partition.j = "number" THEN Some(doc.partition.n) ELSE Some(0),
                   CASE doc.status.s = "UP" -> "Up"
                     [] doc.status.s = "DOWN" -> "Down"
                     [] doc.status.s = "MISSING" -> "Missing")

\* C19: decoding a container state takes a missing key and a null for the
\* same default: device absent, null or "" gives the empty string,
\* ip_address null or absent gives 0.0.0.0, partition null or absent gives 0;
\* after a successful decode partition is a number, never an absent value.
C19_MissingAndNullDefault ==
    (wire.type = "ContainerState" /\ wire.json # None /\ wire.decoded # None)
        => /\ wire.decoded[1].ok => wire.decoded[1].val.partition # None
           /\ Tolerated(wire.json[1])
                => wire.decoded = Some(OkVal(Normalised(wire.json[1])))

----------------------------------------------------------------------------
(* Partition, then heal (SpecService).                                     *)

\* The partition value of a container in no partition: None, what the
\* service's null decodes to, or Some(0), the value of
\* BlockadeContainerState::default().
NoPartition(p) == p = None \/ p = Some(0)

\* C16: with a single client and a service that applies partitions and
\* heals them, after blockade "b1" is created with containers a and b,
\* make_partitions("b1", [[a], [b]]) followed by heal_partitions("b1")
\* leaves a state where get_all_containers("b1") returns <<a, b>> and the
\* shadow entry fetched after the heal reports no partition for a and b.
C16_PartitionThenHeal ==
    scenario = "healed"
        => /\ "b1" \in DOMAIN state
           /\ DOMAIN state["b1"].containers = {CA, CB}
           /\ \A c \in {CA, CB} : NoPartition(state["b1"].containers[c].partition)
           /\ (call.op = "get_all_containers" /\ call.name = "b1")
                 => call.result = OkVal(<<CA, CB>>)

\* The scenario has run to its end and get_all_containers("b1") is asked.
C16_Witness ==
    /\ scenario = "healed"
    /\ call.op = "get_all_containers" /\ call.name = "b1"
    /\ call.result = OkVal(<<CA, CB>>)
    /\ server["b1"] = state["b1"]

----------------------------------------------------------------------------
(* The cached config.                                                      *)

C21_Step ==
    /\ \A n \in Names :
          Entry(config', n) # Entry(config, n)
              => /\ IsStart(call') /\ call'.name = n
                 /\ Creates(call'.log, n) # {}
                 /\ Entry(config', n) = <<call'.args.config>>
    /\ IsStart(call')
          => /\ \A i \in Creates(call'.log, call'.name) :
                    call'.log[i].req.json = call'.args.config
             /\ call'.result.ok
                    => Entry(config', call'.name) = <<call'.args.config>>

\* C21: the cached config of a name is changed only by a create call for
\* that name and then equals the config passed to that call; no fetch,
\* refresh, command, partition, network-state or destroy operation changes
\* a cached config; after start_blockade(name, cfg, _) returns Ok the cached
\* config of name is cfg.
C21_ConfigSetByCreate == [][C21_Step]_vars

\* A restart over a blockade that exists: the second create went through
\* and the config with containers a and b is the cached one.
C21_Witness ==
    /\ IsStart(call) /\ call.result.ok
    /\ Len(call.log) = 4
    /\ Conflict(call.log[1])
    /\ IsCreate(call.log[4], call.name) /\ Accepted(call.log[4])
    /\ call.args.config.containers = {CA, CB}
    /\ config[call.name] = call.args.config

----------------------------------------------------------------------------
(* SpecClient: the request methods one by one.  Each action is one of the  *)
(* private execute_* methods, called on the handler as it stands, with one *)
(* answer of the service to the one request it sends.                      *)

ClientOps == {"execute_setup", "execute_command", "execute_net_command",
              "execute_partition", "execute_restore_network",
              "execute_list_blockades", "execute_get_blockade",
              "execute_delete_blockade"}

ClientRun(h, c, rs) ==
    CASE c.op = "execute_setup" -> execute_setup(h, c.name, c.args.config, rs)
      [] c.op = "execute_command" ->
            execute_command(h, c.name, c.args.command, c.args.containers, rs)
      [] c.op = "execute_net_command" ->
            execute_net_command(h, c.name, c.args.network_state,
                                c.args.container_names, rs)
      [] c.op = "execute_partition" ->
            execute_partition(h, c.name, c.args.partitions, rs)
      [] c.op = "execute_restore_network" -> execute_restore_network(h, c.name, rs)
      [] c.op = "execute_list_blockades" -> execute_list_blockades(h, rs)
      [] c.op = "execute_get_blockade" -> execute_get_blockade(h, c.name, rs)
      [] c.op = "execute_delete_blockade" -> execute_delete_blockade(h, c.name, rs)

\* The request the method sends.
ClientRequest(c) == ClientRun(H, c, <<>>).h.log[1].req

ClientDo(c) ==
    \E r \in ResponsesFor(ClientRequest(c)) :
    \E o \in {ClientRun(H, c, <<r>>)} :
        /\ blockades' = o.h.blockades
        /\ state' = o.h.state
        /\ config' = o.h.config
        /\ call' = Observed(c, o)
        /\ UNCHANGED <<server, scenario, wire>>

ContainerLists == {<<CA>>, <<CA, CB>>}

ExecuteSetup ==
    /\ call = NoCall
    /\ \E n \in Names, cfg \in Configs :
          ClientDo(Call("execute_setup", n, [config |-> cfg]))

ExecuteCommand ==
    /\ call = NoCall
    /\ \E n \in Names, cmd \in {"Start", "Kill"}, l \in ContainerLists :
          ClientDo(Call("execute_command", n, [command |-> cmd, containers |-> l]))

ExecuteNetCommand ==
    /\ call = NoCall
    /\ \E n \in Names, s \in {"Fast", "Flaky"}, l \in ContainerLists :
          ClientDo(Call("execute_net_command", n,
                        [network_state |-> s, container_names |-> l]))

ExecutePartition ==
    /\ call = NoCall
    /\ \E n \in Names, p \in PartitionArgs :
          ClientDo(Call("execute_partition", n, [partitions |-> p]))

ExecuteRestoreNetwork ==
    /\ call = NoCall
    /\ \E n \in Names : ClientDo(Call("execute_restore_network", n, NoArgs))

ExecuteListBlockades ==
    /\ call = NoCall
    /\ ClientDo(Call("execute_list_blockades", "", NoArgs))

ExecuteGetBlockade ==
    /\ call = NoCall
    /\ \E n \in Names : ClientDo(Call("execute_get_blockade", n, NoArgs))

ExecuteDeleteBlockade ==
    /\ call = NoCall
    /\ \E n \in Names : ClientDo(Call("execute_delete_blockade", n, NoArgs))

ClientNext ==
    \/ ExecuteSetup
    \/ ExecuteCommand
    \/ ExecuteNetCommand
    \/ ExecutePartition
    \/ ExecuteRestoreNetwork
    \/ ExecuteListBlockades
    \/ ExecuteGetBlockade
    \/ ExecuteDeleteBlockade
    \/ Return

SpecClient == Init /\ [][ClientNext]_vars

----------------------------------------------------------------------------
(* The classification of outcomes.                                         *)

\* No answer arrived, or its body could not be read: reqwest reports an
\* error from send() or from text().
TransportFailure(e) == ~e.resp.sent \/ e.resp.body.t = "unreadable"

\* A non-2xx answer with its body text.
Refused(e) == e.resp.sent /\ ~e.resp.success /\ e.resp.body.t = "text"

\* A 2xx answer whose body is not JSON.
Malformed(e) == Accepted(e) /\ e.resp.body.t = "garbage"

DecodingOps == {"execute_list_blockades", "execute_get_blockade"}

Classified(c, e) ==
    /\ TransportFailure(e) => c.result = Err(HttpError(1))
    /\ Refused(e) => /\ ~c.result.ok
                     /\ c.result.err.kind = "ServerError"
                     /\ c.result.err.body = TextBody(e.resp.body.text)
    /\ (Malformed(e) /\ c.op \in DecodingOps) => c.result = Err(JsonError(1))
    /\ c.result.ok => Accepted(e)

C22_Step ==
    call'.op \in ClientOps
        => /\ Len(call'.log) = 1
           /\ Classified(call', call'.log[1])
           /\ ~call'.result.ok => /\ state' = state
                                  /\ blockades' = blockades

\* C22: every request method classifies its outcome the same way: a
\* transport failure gives HttpError, a non-2xx status gives ServerError
\* with the text of the response body, a 2xx answer with a malformed JSON
\* body (list and get) gives JsonError; a call that returns an error leaves
\* the shadow state map and the cached name list as they were.
C22_OutcomeClassified == [][C22_Step]_vars

\* A fetch of a name that has a shadow entry was answered 2xx with a body
\* that is not JSON: JsonError, and the entry is still there.
C22_Witness ==
    /\ call.op = "execute_get_blockade"
    /\ Malformed(call.log[1])
    /\ call.result = Err(JsonError(1))
    /\ call.name \in DOMAIN state
    /\ blockades # <<>>

----------------------------------------------------------------------------
(* destroy_blockade: the fetch comes first.                                *)

IsDestroy(c) == c.op = "destroy_blockade"

C23_Step ==
    IsDestroy(call')
        => /\ IsFetch(call'.log[1], call'.name)
           /\ \A i \in 1..Len(call'.log) :
                 call'.log[i].req.method = "DELETE"
                     => /\ i = 2
                        /\ IsDelete(call'.log[i], call'.name)
                        /\ FetchedOk(call'.log[1], call'.name)
           /\ ~FetchedOk(call'.log[1], call'.name)
                 => /\ ReturnsErrorOf(call', 1)
                    /\ Len(call'.log) = 1
                    /\ Entry(state', call'.name) = Entry(state, call'.name)
           /\ FetchedOk(call'.log[1], call'.name)
                 => /\ Len(call'.log) = 2
                    /\ IsDelete(call'.log[2], call'.name)

\* C23: destroy_blockade(name) sends the DELETE for name only after a
\* fetch of name succeeded in the same call; when the fetch fails (non-2xx,
\* transport error or undecodable state) it returns the fetch error, sends
\* no DELETE, so the remote blockade stays, and leaves the shadow entry of
\* name as it was.
C23_DeleteOnlyAfterFetch == [][C23_Step]_vars

====
